---- MODULE Spec2Model ----
(***************************************************************************)
(* Manuscript lifecycle, review assignment and payment reconciliation of   *)
(* the journal API.  One action per route handler; a handler runs          *)
(* atomically against the store (Manuscript, Review and Payment            *)
(* collections).  XResult(...) is the response a handler X gives to a       *)
(* request in the current state; a request answered with an error before   *)
(* any write changes nothing, and `last` records the latest request that   *)
(* got past its checks.  Where requests are taken to run concurrently,     *)
(* the assign handler is split into its check and its write, and the       *)
(* article counters into their read and their write, with the requests     *)
(* between the two steps kept in `inflight`.                               *)
(*                                                                         *)
(* Document.save() is modelled as: run the schema's pre('save') hook,      *)
(* validate the enum paths, persist.  A failed validation throws and is    *)
(* answered by the handler's catch block (HTTP 500).                       *)
(***************************************************************************)
EXTENDS Integers, Sequences, FiniteSets, TLC

\* ---------------------------------------------------------------- bounds
MaxManuscripts == 1
MaxReviews == 2
MaxPayments == 2
MaxTime == 1
MaxInflight == 2
MaxCount == 2

\* ------------------------------------------------------------ identities
Authors == {"author"}
Reviewers == {"rev1", "rev2"}
Users == Authors \cup Reviewers \cup {"editor", "admin"}

Role(u) ==
  CASE u \in Authors -> "author"
    [] u \in Reviewers -> "reviewer"
    [] u = "editor" -> "editor"
    [] OTHER -> "admin"

\* authorize(...roles): the role gate of the missing middleware/auth.js
Authorize(caller, roles) == Role(caller) \in roles

\* reviewer ids a request may carry; "ghost" resolves to no User
ReviewerInputs == Reviewers \cup {"ghost"}

\* ------------------------------------------------------------- the enums
Undefined == "undefined"

ManuscriptStatusEnum ==
  {"draft", "submitted", "awaiting-reviewer-assignment", "under-review",
   "revision-requested", "revised", "accepted", "rejected", "published",
   "withdrawn"}

AssignmentStatusEnum == {"pending", "accepted", "declined", "completed"}

ReviewStatusEnum == {"pending", "in-progress", "completed", "overdue"}

PaymentStatusEnum == {"pending", "processing", "completed", "failed", "cancelled"}

EditorDecisionEnum == {"accept", "minor-revisions", "major-revisions", "reject"}

\* validStatuses of PUT /:id/status
validStatuses ==
  {"draft", "submitted", "under-review", "revision-requested", "revised",
   "accepted", "rejected", "published", "withdrawn"}

\* statusMap of make-decision; a decision outside the map yields undefined
statusMap(decision) ==
  CASE decision = "accept" -> "accepted"
    [] decision = "minor-revisions" -> "revision-requested"
    [] decision = "major-revisions" -> "revision-requested"
    [] decision = "reject" -> "rejected"
    [] OTHER -> Undefined

\* ------------------------------------------------------------ references
NoRef == <<"none", 0>>
NoDate == -1

\* paymentReference generated by the Payment pre('save') hook (unique per
\* Payment) and the reference the gateway assigns at initialisation
PaymentReference(id) == <<"PAY", id>>
PaystackReference(id) == <<"PSTK", id>>

References ==
  {PaymentReference(i) : i \in 1..MaxPayments} \cup
  {PaystackReference(i) : i \in 1..MaxPayments}

\* inflight: the assign requests that have passed their existingReview check
\* and not yet written (used where the steps of a handler interleave)
VARIABLES manuscripts, reviews, nextReviewId, payments, now, last, inflight, users

vars == <<manuscripts, reviews, nextReviewId, payments, now, last, inflight, users>>

\* ------------------------------------------------------------- responses
Response(op, target, arg, result, ref) ==
  [op |-> op, target |-> target, arg |-> arg, result |-> result, ref |-> ref]

\* a request answered with an error before any write
Rejected == UNCHANGED vars

\* ------------------------------------------------------------ the store
ManuscriptIds == 1..MaxManuscripts

Exists(m) == m \in 1..Len(manuscripts)

\* mongoose validation of Manuscript.status on save: an enum path accepts
\* its listed values and an unset value
ValidManuscript(doc) == doc.status \in ManuscriptStatusEnum \cup {Undefined}

ReviewsOf(m) == {r \in reviews : r.manuscript = m}

ReviewById(id) == CHOOSE r \in reviews : r.id = id

ReviewIds == 1..MaxReviews

Init ==
  /\ manuscripts = <<>>
  /\ reviews = {}
  /\ nextReviewId = 1
  /\ payments = <<>>
  /\ now = 0
  /\ last = Response("none", 0, "", "ok", NoRef)
  /\ inflight = <<>>
  \* User.reviewAssignments of every user: the ids of the Reviews assigned
  /\ users = [u \in Users |-> {}]

\* ------------------------------------------------- routes/manuscripts.js

\* POST api/manuscripts
\* title and abstract pass notEmpty() and are then trimmed; the schema
\* requires both, so a blank one fails the save
TextInputs == {"", "T"}

CreateManuscriptResult(title, abstract) ==
  IF title = "" \/ abstract = "" THEN "ValidationError" ELSE "ok"

CreateManuscript(caller, title, abstract, withFiles) ==
  IF CreateManuscriptResult(title, abstract) # "ok" THEN Rejected
  ELSE
  /\ Len(manuscripts) < MaxManuscripts
  /\ manuscripts' = Append(manuscripts,
       [status |-> "draft",
        title |-> title,
        abstract |-> abstract,
        submissionDate |-> NoDate,
        submittedBy |-> caller,
        hasFiles |-> withFiles,
        paymentCompleted |-> FALSE,
        paymentReference |-> NoRef,
        reviewAssignments |-> <<>>,
        reviews |-> <<>>,
        \* plagiarismCheck.status, with its schema default
        plagiarismCheck |-> "pending",
        \* the counters of the schema's metrics, with their default
        metrics |-> [views |-> 0, downloads |-> 0],
        editorDecision |-> Undefined,
        revisionDeadline |-> NoDate])
  /\ last' = Response("create", Len(manuscripts) + 1, "", "ok", NoRef)
  /\ UNCHANGED <<reviews, nextReviewId, payments, now, inflight, users>>

\* PUT api/manuscripts/:id
UpdateManuscriptResult(caller, m) ==
  IF ~Exists(m) THEN "NotFound"
  ELSE IF manuscripts[m].submittedBy # caller THEN "Forbidden"
  ELSE IF manuscripts[m].status \notin {"draft", "revision-requested"} THEN "InvalidState"
  ELSE "ok"

UpdateManuscript(caller, m, addFiles) ==
  IF UpdateManuscriptResult(caller, m) # "ok" THEN Rejected
  ELSE
    /\ manuscripts' = [manuscripts EXCEPT ![m].hasFiles = @ \/ addFiles]
    /\ last' = Response("update", m, "", "ok", NoRef)
    /\ UNCHANGED <<reviews, nextReviewId, payments, now, inflight, users>>

\* submit without its check of the required fields
SubmitManuscriptResultUnvalidated(caller, m) ==
  IF ~Exists(m) THEN "NotFound"
  ELSE IF manuscripts[m].submittedBy # caller THEN "Forbidden"
  ELSE IF manuscripts[m].status # "draft" THEN "InvalidState"
  ELSE "ok"

\* POST api/manuscripts/:id/submit
SubmitManuscriptResult(caller, m) ==
  IF ~Exists(m) THEN "NotFound"
  ELSE IF manuscripts[m].submittedBy # caller THEN "Forbidden"
  ELSE IF manuscripts[m].status # "draft" THEN "InvalidState"
  ELSE IF manuscripts[m].title = "" \/ manuscripts[m].abstract = ""
          \/ ~manuscripts[m].hasFiles THEN "ValidationError"
  ELSE "ok"

SubmitManuscript(caller, m) ==
  IF SubmitManuscriptResult(caller, m) # "ok" THEN Rejected
  ELSE
    /\ manuscripts' = [manuscripts EXCEPT ![m].status = "submitted",
                                          ![m].submissionDate = now]
    /\ last' = Response("submit", m, "", "ok", NoRef)
    /\ UNCHANGED <<reviews, nextReviewId, payments, now, inflight, users>>

\* PUT api/manuscripts/:id/status
UpdateStatusResult(caller, m, status) ==
  IF ~Authorize(caller, {"editor", "admin"}) THEN "Forbidden"
  ELSE IF status \notin validStatuses THEN "ValidationError"
  ELSE IF ~Exists(m) THEN "NotFound"
  ELSE "ok"

UpdateStatus(caller, m, status) ==
  IF UpdateStatusResult(caller, m, status) # "ok" THEN Rejected
  ELSE
    /\ manuscripts' = [manuscripts EXCEPT
         ![m].status = status,
         ![m].submissionDate =
            IF status = "submitted" /\ @ = NoDate THEN now ELSE @]
    /\ last' = Response("status", m, "", "ok", NoRef)
    /\ UNCHANGED <<reviews, nextReviewId, payments, now, inflight, users>>

\* ---------------------------------- routes/editorial (routes/payments.js)

InitialDecisions == {"send-for-review", "desk-reject", "other"}

\* what the notification sink (utils/emailService) does with one message:
\* it delivers it, returns {success: false}, or throws
MailOutcomes == {"sent", "failed", "thrown"}

\* a sink whose exception reaches the handler's outer catch (HTTP 500)
AfterNotificationUncaught(mail, result) ==
  IF mail = "thrown" THEN "ServerError" ELSE result

\* try { await send...Email(...) } catch (emailError) { console.error(...) }
\* after the save: the response the handler goes on to give
AfterNotification(mail, result) ==
  CASE mail = "sent" -> result
    \* the returned {success: false} is logged or ignored
    [] mail = "failed" -> result
    \* caught and logged by the inner catch
    [] mail = "thrown" -> result

\* POST api/editorial/initial-review/:manuscriptId
InitialReviewResult(caller, m) ==
  IF ~Authorize(caller, {"editor", "admin"}) THEN "Forbidden"
  ELSE IF ~Exists(m) THEN "NotFound"
  ELSE IF manuscripts[m].status # "submitted" THEN "InvalidState"
  ELSE "ok"

InitialReviewNotified(caller, m, decision, mail) ==
  IF InitialReviewResult(caller, m) # "ok" THEN Rejected
  ELSE
    LET newStatus ==
          CASE decision = "send-for-review" -> "awaiting-reviewer-assignment"
            [] decision = "desk-reject" -> "rejected"
            [] OTHER -> Undefined
    IN /\ manuscripts' = [manuscripts EXCEPT ![m].status = newStatus]
       /\ last' = Response("initial-review", m, decision, AfterNotification(mail, "ok"), NoRef)
       /\ UNCHANGED <<reviews, nextReviewId, payments, now, inflight, users>>

\* the request with a sink that delivers
InitialReview(caller, m, decision) ==
  InitialReviewNotified(caller, m, decision, "sent")

\* Review.countDocuments({manuscript, status: {$in: ['pending', 'accepted']}})
pendingReviews(m) ==
  Cardinality({r \in ReviewsOf(m) : r.status \in {"pending", "accepted"}})

DecisionInputs == EditorDecisionEnum \cup {"other"}

\* POST api/editorial/make-decision/:manuscriptId
MakeDecisionResult(caller, m, decision) ==
  IF ~Authorize(caller, {"editor", "admin"}) THEN "Forbidden"
  ELSE IF ~Exists(m) THEN "NotFound"
  ELSE IF pendingReviews(m) > 0 THEN "PendingReviews"
  \* editorDecision.decision fails its enum validation on save
  ELSE IF decision \notin EditorDecisionEnum THEN "ServerError"
  ELSE "ok"

SixtyDays == 60

\* decision.includes('revisions')
includesRevisions(decision) == decision \in {"minor-revisions", "major-revisions"}

\* a handler that sets the deadline whatever the decision
DecisionDeadlineAlways(m, decision, revisionDeadline) ==
  IF revisionDeadline # NoDate THEN revisionDeadline ELSE now + SixtyDays

\* the revisionDeadline the handler leaves on the document: the supplied one,
\* or 60 days from now, when revisions are requested; the stored one otherwise
DecisionDeadline(m, decision, revisionDeadline) ==
  IF includesRevisions(decision)
    THEN IF revisionDeadline # NoDate THEN revisionDeadline ELSE now + SixtyDays
    ELSE manuscripts[m].revisionDeadline

\* the request with its revisionDeadline field (NoDate: not supplied), and
\* the document with the editorDecision and revisionDeadline it is saved with
MakeDecisionDated(caller, m, decision, revisionDeadline) ==
  IF MakeDecisionResult(caller, m, decision) # "ok" THEN Rejected
  ELSE
    /\ manuscripts' = [manuscripts EXCEPT
         ![m].status = statusMap(decision),
         ![m].editorDecision = decision,
         ![m].revisionDeadline = DecisionDeadline(m, decision, revisionDeadline)]
    /\ last' = Response("make-decision", m, decision, "ok", NoRef)
    /\ UNCHANGED <<reviews, nextReviewId, payments, now, inflight, users>>

\* POST api/editorial/make-decision as the two steps that interleave when
\* requests run concurrently.  First step: the manuscript is read and
\* Review.countDocuments finds no pending Review.
DecideCheck(caller, m, decision) ==
  /\ MakeDecisionResult(caller, m, decision) = "ok"
  /\ Len(inflight) < MaxInflight
  /\ inflight' = Append(inflight, [manuscript |-> m, decision |-> decision])
  /\ UNCHANGED <<manuscripts, reviews, nextReviewId, payments, now, last, users>>

\* Second step: manuscript.save() of the request that passed the check; the
\* save writes the paths the handler modified
DecideWrite(i) ==
  /\ i \in 1..Len(inflight)
  /\ "decision" \in DOMAIN inflight[i]
  /\ LET request == inflight[i]
     IN /\ manuscripts' = [manuscripts EXCEPT
             ![request.manuscript].status = statusMap(request.decision),
             ![request.manuscript].editorDecision = request.decision,
             ![request.manuscript].revisionDeadline =
               DecisionDeadline(request.manuscript, request.decision, NoDate)]
        /\ last' = Response("make-decision", request.manuscript, request.decision,
                            "ok", NoRef)
  /\ inflight' = SubSeq(inflight, 1, i - 1) \o SubSeq(inflight, i + 1, Len(inflight))
  /\ UNCHANGED <<reviews, nextReviewId, payments, now, users>>

\* the same request seen through the status alone: editorDecision and
\* revisionDeadline, which no handler reads, stay out of the state
MakeDecisionNotified(caller, m, decision, mail) ==
  IF MakeDecisionResult(caller, m, decision) # "ok" THEN Rejected
  ELSE
    /\ manuscripts' = [manuscripts EXCEPT ![m].status = statusMap(decision)]
    /\ last' = Response("make-decision", m, decision, AfterNotification(mail, "ok"), NoRef)
    /\ UNCHANGED <<reviews, nextReviewId, payments, now, inflight, users>>

\* the request with a sink that delivers
MakeDecision(caller, m, decision) ==
  MakeDecisionNotified(caller, m, decision, "sent")

\* GET api/editorial/pending-decisions: the manuscripts it lists
readyForDecision ==
  {m \in 1..Len(manuscripts) :
     /\ manuscripts[m].status = "under-review"
     /\ LET totalReviews == Len(manuscripts[m].reviewAssignments)
            completedReviews ==
              Cardinality({r \in ReviewsOf(m) : r.status = "completed"})
        IN totalReviews > 0 /\ completedReviews = totalReviews}

\* POST api/editorial/publish/:manuscriptId
PublishResult(caller, m) ==
  IF ~Authorize(caller, {"editor", "admin"}) THEN "Forbidden"
  ELSE IF ~Exists(m) THEN "NotFound"
  ELSE IF manuscripts[m].status # "accepted" THEN "InvalidState"
  ELSE "ok"

PublishNotified(caller, m, mail) ==
  IF PublishResult(caller, m) # "ok" THEN Rejected
  ELSE
    /\ manuscripts' = [manuscripts EXCEPT ![m].status = "published"]
    /\ last' = Response("publish", m, "", AfterNotification(mail, "ok"), NoRef)
    /\ UNCHANGED <<reviews, nextReviewId, payments, now, inflight, users>>

\* the request with a sink that delivers
Publish(caller, m) == PublishNotified(caller, m, "sent")

\* POST api/editorial/submit-back/:manuscriptId
SubmitBackResult(caller, m) ==
  IF ~Authorize(caller, {"editor", "admin"}) THEN "Forbidden"
  ELSE IF ~Exists(m) THEN "NotFound"
  \* manuscript.save() throws: 'submitted-back' is not in the schema's enum
  ELSE IF ~ValidManuscript([manuscripts[m] EXCEPT !.status = "submitted-back"])
    THEN "ServerError"
  ELSE "ok"

SubmitBackNotified(caller, m, mail) ==
  IF SubmitBackResult(caller, m) # "ok" THEN Rejected
  ELSE
    /\ manuscripts' = [manuscripts EXCEPT ![m].status = "submitted-back"]
    /\ last' = Response("submit-back", m, "", AfterNotification(mail, "ok"), NoRef)
    /\ UNCHANGED <<reviews, nextReviewId, payments, now, inflight, users>>

\* the request with a sink that delivers
SubmitBack(caller, m) == SubmitBackNotified(caller, m, "sent")

\* Manuscript.editorNotes only grows: handlers push entries onto it before
\* manuscript.save() and nothing removes or rewrites one.  The number of
\* entries the handler of request `op` pushes when the request carries no
\* note text (its system note); `arg` is the decision of an initial review.
editorNotesPushed(op, arg) ==
  CASE op = "initial-review" ->
         IF arg \in {"send-for-review", "desk-reject"} THEN 1 ELSE 0
    [] op = "make-decision" -> 1
    [] op = "submit-back" -> 1
    [] OTHER -> 0

\* -------------------------------------------- routes/reviews (part_003)

\* the evaluation criteria of the Review schema, scored 1 to 5
Criteria == {"originality", "significance", "methodology", "clarity", "literature"}

MinScore == 1
MaxScore == 5

\* a criterion without a score (undefined is falsy, as 0 would be)
NoScore == 0

ScoreInputs == {NoScore, MinScore, MaxScore}

Evaluations == [Criteria -> ScoreInputs]

NoEvaluation == [c \in Criteria |-> NoScore]

\* overallScore is a quotient sum / length, kept as the exact fraction;
\* den = 0 stands for a Review without overallScore
NoOverallScore == [num |-> 0, den |-> 0]

RECURSIVE SumScores(_, _)
SumScores(evaluation, keys) ==
  IF keys = {} THEN 0
  ELSE LET key == CHOOSE k \in keys : TRUE
       IN evaluation[key] + SumScores(evaluation, keys \ {key})

\* reviewSchema.pre('save'): scores = the scores that are truthy;
\* overallScore is written only when scores is not empty
ReviewPreSave(doc) ==
  LET scores == {key \in Criteria : doc.evaluation[key] # NoScore}
  IN IF Cardinality(scores) > 0
       THEN [doc EXCEPT !.overallScore =
               [num |-> SumScores(doc.evaluation, scores), den |-> Cardinality(scores)]]
       ELSE doc

\* dueDate of an assign request: the given date, or 30 days from now
ThirtyDays == 30

DueDateInputs == {NoDate, MaxTime}

reviewDueDate(dueDate) == IF dueDate # NoDate THEN dueDate ELSE now + ThirtyDays

\* new Review({manuscript, reviewer, assignedBy, dueDate}) after its save
NewReview(id, m, reviewerId, dueDate) ==
  ReviewPreSave([id |-> id, manuscript |-> m, reviewer |-> reviewerId,
                 status |-> "pending", dueDate |-> reviewDueDate(dueDate),
                 evaluation |-> NoEvaluation, overallScore |-> NoOverallScore])

\* an existence check that never finds the Review
HasReviewNever(revs, m, reviewer) == FALSE

HasReview(revs, m, reviewer) ==
  \E r \in revs : r.manuscript = m /\ r.reviewer = reviewer

\* the for-loop of POST /assign over reviewerIds: st carries the Review
\* collection, the manuscript's reviewAssignments, the next Review id and
\* the length of assignedReviews
\* a reviewer id that is no ObjectId: User.findById rejects with a CastError
Malformed == "not-an-id"

RECURSIVE AssignLoop(_, _, _, _)
AssignLoop(ids, m, dueDate, st) ==
  IF ids = <<>> THEN st
  ELSE
    LET reviewerId == Head(ids)
    IN IF reviewerId = Malformed
         \* the rejection leaves the loop for the handler's catch block; what
         \* the earlier iterations wrote stays written
         THEN [st EXCEPT !.thrown = TRUE]
       ELSE IF reviewerId \notin Users
         THEN AssignLoop(Tail(ids), m, dueDate, st)
       ELSE IF HasReview(st.reviews, m, reviewerId)
         THEN AssignLoop(Tail(ids), m, dueDate, [st EXCEPT !.assigned = @ + 1])
       ELSE
         AssignLoop(Tail(ids), m, dueDate,
           [reviews |-> st.reviews \cup
               {NewReview(st.nextId, m, reviewerId, dueDate)},
            assignments |-> Append(st.assignments,
               [reviewer |-> reviewerId, status |-> "pending",
                dueDate |-> reviewDueDate(dueDate)]),
            nextId |-> st.nextId + 1,
            assigned |-> st.assigned + 1,
            thrown |-> FALSE])

\* `${assignedReviews.length} reviewer(s) assigned successfully`
Assigned(n) == <<"assigned", n>>

\* POST api/reviews/assign
AssignReviewersResult(caller, m) ==
  IF ~Authorize(caller, {"editor", "admin"}) THEN "Forbidden"
  ELSE IF ~Exists(m) THEN "NotFound"
  ELSE "ok"

\* a loop that handles the first reviewer id only
AssignOutcomeFirstOnly(m, reviewerIds, dueDate) ==
  AssignLoop(<<Head(reviewerIds)>>, m, dueDate,
    [reviews |-> reviews,
     assignments |-> manuscripts[m].reviewAssignments,
     nextId |-> nextReviewId,
     assigned |-> 0,
     thrown |-> FALSE])

\* what the loop leaves in the store, started from the current store
AssignOutcome(m, reviewerIds, dueDate) ==
  AssignLoop(reviewerIds, m, dueDate,
    [reviews |-> reviews,
     assignments |-> manuscripts[m].reviewAssignments,
     nextId |-> nextReviewId,
     assigned |-> 0,
     thrown |-> FALSE])

\* `mail` is what the sink does with the request's assignment messages
AssignReviewersNotified(caller, m, reviewerIds, dueDate, mail) ==
  IF AssignReviewersResult(caller, m) # "ok" THEN Rejected
  ELSE
    LET st == AssignOutcome(m, reviewerIds, dueDate)
    IN /\ st.nextId - 1 <= MaxReviews
       /\ reviews' = st.reviews
       /\ nextReviewId' = st.nextId
       /\ manuscripts' = [manuscripts EXCEPT
            ![m].reviewAssignments = st.assignments,
            \* the status update follows the loop
            ![m].status = IF st.assigned > 0 /\ ~st.thrown THEN "under-review" ELSE @]
       \* recorded with the status the request found
       /\ last' = Response("assign", m, manuscripts[m].status,
                           IF st.thrown THEN "ServerError"
                                        ELSE AfterNotification(mail, "ok"),
                           Assigned(st.assigned))
       \* {$push: {reviewAssignments: review._id}} for each Review created
       /\ users' = [u \in Users |->
            users[u] \cup {r.id : r \in {x \in st.reviews \ reviews : x.reviewer = u}}]
       /\ UNCHANGED <<payments, now, inflight>>

\* the request with a sink that delivers
AssignReviewers(caller, m, reviewerIds, dueDate) ==
  AssignReviewersNotified(caller, m, reviewerIds, dueDate, "sent")

\* POST api/reviews/assign for one reviewer id, as the two steps that
\* interleave when requests run concurrently.  First step: the reviewer
\* resolves and Review.findOne({manuscript, reviewer}) finds nothing.
AssignCheck(caller, m, reviewerId, dueDate) ==
  /\ AssignReviewersResult(caller, m) = "ok"
  /\ reviewerId \in Users
  /\ ~HasReview(reviews, m, reviewerId)
  /\ Len(inflight) < MaxInflight
  /\ inflight' = Append(inflight,
       [manuscript |-> m, reviewer |-> reviewerId, dueDate |-> dueDate])
  /\ UNCHANGED <<manuscripts, reviews, nextReviewId, payments, now, last, users>>

\* Second step: review.save(), the $push of the mirrored entry and the
\* status update of the request that passed the check.
AssignWrite(i) ==
  /\ i \in 1..Len(inflight)
  /\ "reviewer" \in DOMAIN inflight[i]
  /\ nextReviewId <= MaxReviews
  /\ LET request == inflight[i]
     IN /\ reviews' = reviews \cup
             {NewReview(nextReviewId, request.manuscript, request.reviewer,
                        request.dueDate)}
        /\ manuscripts' = [manuscripts EXCEPT
             ![request.manuscript].reviewAssignments = Append(@,
                [reviewer |-> request.reviewer, status |-> "pending",
                 dueDate |-> reviewDueDate(request.dueDate)]),
             ![request.manuscript].status = "under-review"]
        /\ last' = Response("assign", request.manuscript,
                            manuscripts[request.manuscript].status, "ok", Assigned(1))
  /\ nextReviewId' = nextReviewId + 1
  /\ inflight' = SubSeq(inflight, 1, i - 1) \o SubSeq(inflight, i + 1, Len(inflight))
  /\ users' = [users EXCEPT ![inflight[i].reviewer] = @ \cup {nextReviewId}]
  /\ UNCHANGED <<payments, now>>

\* {$set: {'reviewAssignments.$.status': status}} for the first entry of
\* the reviewer; no entry, no update
RECURSIVE SetAssignmentStatus(_, _, _)
SetAssignmentStatus(assignments, reviewer, status) ==
  IF assignments = <<>> THEN <<>>
  ELSE IF Head(assignments).reviewer = reviewer
    THEN <<[Head(assignments) EXCEPT !.status = status]>> \o Tail(assignments)
  ELSE <<Head(assignments)>> \o SetAssignmentStatus(Tail(assignments), reviewer, status)

\* a decline that forgets the $pull of the mirrored entry
PullAssignmentsOmitted(assignments, reviewer) == assignments

\* {$pull: {reviewAssignments: {reviewer}}}
PullAssignments(assignments, reviewer) ==
  LET keep(a) == a.reviewer # reviewer
  IN SelectSeq(assignments, keep)

\* {$addToSet: {reviews: id}}
AddToSet(ids, id) ==
  IF \E i \in 1..Len(ids) : ids[i] = id THEN ids ELSE Append(ids, id)

ReviewExists(id) == \E r \in reviews : r.id = id

SetReviewStatus(id, status) ==
  {IF r.id = id THEN ReviewPreSave([r EXCEPT !.status = status]) ELSE r : r \in reviews}

\* the evaluations a submit request carries here: none scored, two scored
SubmitEvaluations ==
  {NoEvaluation,
   [c \in Criteria |-> CASE c = "originality" -> MinScore
                         [] c = "significance" -> MaxScore
                         [] OTHER -> NoScore]}

\* review.evaluation = evaluation; review.status = 'completed'; review.save()
SubmittedReviews(id, evaluation) ==
  {IF r.id = id
     THEN ReviewPreSave([r EXCEPT !.status = "completed", !.evaluation = evaluation])
     ELSE r : r \in reviews}

\* the evaluation POST /:reviewId/submit builds from the four scores of its body
AltEvaluation(evaluation) == [evaluation EXCEPT !["literature"] = NoScore]

\* POST api/reviews/:id/accept
\* an accept that does not compare the caller with review.reviewer
AcceptReviewResultAnyCaller(caller, id) ==
  IF ~ReviewExists(id) THEN "NotFound"
  ELSE IF ReviewById(id).status # "pending" THEN "InvalidState"
  ELSE "ok"

AcceptReviewResult(caller, id) ==
  IF ~ReviewExists(id) THEN "NotFound"
  ELSE IF ReviewById(id).reviewer # caller THEN "Forbidden"
  ELSE IF ReviewById(id).status # "pending" THEN "InvalidState"
  ELSE "ok"

AcceptReview(caller, id) ==
  IF AcceptReviewResult(caller, id) # "ok" THEN Rejected
  ELSE
    LET review == ReviewById(id)
    IN /\ reviews' = SetReviewStatus(id, "in-progress")
       /\ manuscripts' = [manuscripts EXCEPT ![review.manuscript].reviewAssignments =
            SetAssignmentStatus(@, review.reviewer, "accepted")]
       /\ last' = Response("accept", id, "", "ok", NoRef)
       /\ UNCHANGED <<nextReviewId, payments, now, inflight, users>>

\* decline without the check of the stored status
DeclineReviewResultAnyStatus(caller, id) ==
  IF ~ReviewExists(id) THEN "NotFound"
  ELSE IF ReviewById(id).reviewer # caller THEN "Forbidden"
  ELSE "ok"

\* POST api/reviews/:id/decline
DeclineReviewResult(caller, id) ==
  IF ~ReviewExists(id) THEN "NotFound"
  ELSE IF ReviewById(id).reviewer # caller THEN "Forbidden"
  ELSE IF ReviewById(id).status # "pending" THEN "InvalidState"
  ELSE "ok"

DeclineReview(caller, id) ==
  IF DeclineReviewResult(caller, id) # "ok" THEN Rejected
  ELSE
    LET review == ReviewById(id)
    IN /\ reviews' = reviews \ {review}
       /\ manuscripts' = [manuscripts EXCEPT ![review.manuscript].reviewAssignments =
            PullAssignments(@, review.reviewer)]
       /\ last' = Response("decline", id, "", "ok", NoRef)
       \* {$pull: {reviewAssignments: review._id}} on the reviewer
       /\ users' = [users EXCEPT ![review.reviewer] = @ \ {id}]
       /\ UNCHANGED <<nextReviewId, payments, now, inflight>>

\* PUT api/reviews/:id/submit
SubmitReviewResult(caller, id) ==
  IF ~ReviewExists(id) THEN "NotFound"
  ELSE IF ReviewById(id).reviewer # caller THEN "Forbidden"
  ELSE IF ReviewById(id).status = "completed" THEN "InvalidState"
  ELSE "ok"

SubmitReview(caller, id, evaluation) ==
  IF SubmitReviewResult(caller, id) # "ok" THEN Rejected
  ELSE
    LET review == ReviewById(id)
    IN /\ reviews' = SubmittedReviews(id, evaluation)
       /\ manuscripts' = [manuscripts EXCEPT
            ![review.manuscript].reviewAssignments =
               SetAssignmentStatus(@, review.reviewer, "completed"),
            ![review.manuscript].reviews = AddToSet(@, id)]
       /\ last' = Response("review-submit", id, "", "ok", NoRef)
       /\ UNCHANGED <<nextReviewId, payments, now, inflight, users>>

\* POST api/reviews/:reviewId/submit
SubmitReviewAltResult(caller, id) ==
  IF ~ReviewExists(id) THEN "NotFound"
  ELSE IF ReviewById(id).reviewer # caller THEN "Forbidden"
  ELSE IF ReviewById(id).status = "completed" THEN "InvalidState"
  ELSE
    LET review == ReviewById(id)
        allReviews == {r \in SetReviewStatus(id, "completed") :
                         r.manuscript = review.manuscript}
        completedReviews == {r \in allReviews : r.status = "completed"}
    IN IF Cardinality(completedReviews) = Cardinality(allReviews)
            /\ ~ValidManuscript([manuscripts[review.manuscript] EXCEPT
                                   !.status = "reviewed"])
         \* manuscript.save() throws after the Review was saved
         THEN "ServerError"
         ELSE "ok"

SubmitReviewAlt(caller, id, evaluation) ==
  IF SubmitReviewAltResult(caller, id) \notin {"ok", "ServerError"} THEN Rejected
  ELSE
    LET review == ReviewById(id)
        allReviews == {r \in SetReviewStatus(id, "completed") :
                         r.manuscript = review.manuscript}
        completedReviews == {r \in allReviews : r.status = "completed"}
    IN /\ reviews' = SubmittedReviews(id, AltEvaluation(evaluation))
       /\ manuscripts' =
            IF Cardinality(completedReviews) = Cardinality(allReviews)
               /\ SubmitReviewAltResult(caller, id) = "ok"
              THEN [manuscripts EXCEPT ![review.manuscript].status = "reviewed"]
              ELSE manuscripts
       /\ last' = Response("review-submit-alt", id, "",
                           SubmitReviewAltResult(caller, id), NoRef)
       /\ UNCHANGED <<nextReviewId, payments, now, inflight, users>>

\* ------------------------------------------------- routes/payments.js

\* Payment.findOne({manuscript, status: 'completed'}): 0 when none
RECURSIVE FindCompleted(_, _)
FindCompleted(m, i) ==
  IF i > Len(payments) THEN 0
  ELSE IF payments[i].manuscript = m /\ payments[i].status = "completed" THEN i
  ELSE FindCompleted(m, i + 1)

\* the already-paid query with a status no Payment ever has
existingPaymentWrongStatus(m) ==
  IF \E i \in 1..Len(payments) :
       payments[i].manuscript = m /\ payments[i].status = "success"
    THEN CHOOSE i \in 1..Len(payments) :
           payments[i].manuscript = m /\ payments[i].status = "success"
    ELSE 0

existingPayment(m) == FindCompleted(m, 1)

\* Payment.findOne({$or: [{paymentReference}, {paystackReference}]}): 0 when none
RECURSIVE FindByReference(_, _)
FindByReference(reference, i) ==
  IF i > Len(payments) THEN 0
  ELSE IF payments[i].paymentReference = reference
          \/ payments[i].paystackReference = reference THEN i
  ELSE FindByReference(reference, i + 1)

\* the publication fee in kobo, and the platform's share in percent
publicationFee == 5000000
PlatformPercent == 10

\* Math.round of the quotient num / den of two naturals
MathRound(num, den) == (2 * num + den) \div (2 * den)

platformFee(amount) == MathRound(amount * PlatformPercent, 100)

\* the vendor's share with the platform fee not deducted
vendorReceivesGross(amount) == amount

vendorReceives(amount) == amount - platformFee(amount)

\* initiate without its check of the manuscript's status
InitiatePaymentResultAnyStatus(caller, m, hasEmail, gatewayOk) ==
  IF ~Exists(m) THEN "NotFound"
  ELSE IF manuscripts[m].submittedBy # caller /\ Role(caller) # "admin" THEN "Forbidden"
  ELSE IF existingPayment(m) # 0 THEN "Conflict"
  ELSE IF ~hasEmail THEN "ValidationError"
  ELSE IF ~gatewayOk THEN "UpstreamFailure"
  ELSE "ok"

\* POST api/payments/initiate: the response, and the reference it carries.
\* The gateway is called exactly when the result is ok or UpstreamFailure.
InitiatePaymentResult(caller, m, hasEmail, gatewayOk) ==
  IF ~Exists(m) THEN "NotFound"
  ELSE IF manuscripts[m].submittedBy # caller /\ Role(caller) # "admin" THEN "Forbidden"
  ELSE IF manuscripts[m].status # "accepted" THEN "InvalidState"
  ELSE IF existingPayment(m) # 0 THEN "Conflict"
  ELSE IF ~hasEmail THEN "ValidationError"
  ELSE IF ~gatewayOk THEN "UpstreamFailure"
  ELSE "ok"

InitiatePaymentReference(caller, m, hasEmail, gatewayOk) ==
  CASE InitiatePaymentResult(caller, m, hasEmail, gatewayOk) = "Conflict" ->
         payments[existingPayment(m)].paymentReference
    [] InitiatePaymentResult(caller, m, hasEmail, gatewayOk) = "ok" ->
         PaystackReference(Len(payments) + 1)
    [] OTHER -> NoRef

\* new Payment({...}) of the initiate handler: built in memory with status
\* pending and without a paymentReference
NewPayment(caller, m) ==
  [manuscript |-> m,
   user |-> caller,
   amount |-> publicationFee,
   platformFee |-> platformFee(publicationFee),
   vendorReceives |-> vendorReceives(publicationFee),
   status |-> "pending",
   paymentReference |-> NoRef,
   paystackReference |-> NoRef,
   paidAt |-> NoDate]

\* the Payment pre('save') hook: generates the paymentReference when the
\* document has none
PaymentPreSave(payment, id) ==
  IF payment.paymentReference = NoRef
    THEN [payment EXCEPT !.paymentReference = PaymentReference(id)]
    ELSE payment

\* reference: payment.paymentReference in the body of the gateway's
\* initialize call, read from the Payment before its first save
InitializeReference(caller, m) == NewPayment(caller, m).paymentReference

\* a handler that saves the Payment as processing and mirrors its reference
\* before it calls the gateway
InitiatePaymentSavedFirst(caller, m, hasEmail, gatewayOk) ==
  /\ InitiatePaymentResult(caller, m, hasEmail, gatewayOk) \in {"ok", "UpstreamFailure"}
  /\ Len(payments) < MaxPayments
  /\ payments' = Append(payments,
       [manuscript |-> m,
        user |-> caller,
        amount |-> publicationFee,
        platformFee |-> platformFee(publicationFee),
        vendorReceives |-> vendorReceives(publicationFee),
        status |-> "processing",
        paymentReference |-> PaymentReference(Len(payments) + 1),
        paystackReference |-> PaystackReference(Len(payments) + 1),
        paidAt |-> NoDate])
  /\ manuscripts' = [manuscripts EXCEPT
       ![m].paymentReference = PaymentReference(Len(payments) + 1)]
  /\ last' = Response("initiate", m, "",
                      InitiatePaymentResult(caller, m, hasEmail, gatewayOk), NoRef)
  /\ UNCHANGED <<reviews, nextReviewId, now, inflight, users>>

InitiatePayment(caller, m, hasEmail, gatewayOk) ==
  IF InitiatePaymentResult(caller, m, hasEmail, gatewayOk) = "Conflict"
    \* answered with the existing Payment's reference, nothing written
    THEN /\ last' = Response("initiate", m, "", "Conflict",
                             InitiatePaymentReference(caller, m, hasEmail, gatewayOk))
         /\ UNCHANGED <<manuscripts, reviews, nextReviewId, payments, now, inflight, users>>
  ELSE IF InitiatePaymentResult(caller, m, hasEmail, gatewayOk) = "UpstreamFailure"
    \* the one gateway call threw: the inner catch answers 500; the Payment
    \* built in memory was never saved
    THEN /\ last' = Response("initiate", m, "", "UpstreamFailure", NoRef)
         /\ UNCHANGED <<manuscripts, reviews, nextReviewId, payments, now, inflight, users>>
  ELSE IF InitiatePaymentResult(caller, m, hasEmail, gatewayOk) # "ok" THEN Rejected
  ELSE
    LET id == Len(payments) + 1
    IN /\ id <= MaxPayments
       /\ payments' = Append(payments,
            PaymentPreSave([NewPayment(caller, m) EXCEPT
                              !.paystackReference = PaystackReference(id),
                              !.status = "processing"], id))
       /\ manuscripts' = [manuscripts EXCEPT ![m].paymentReference = PaymentReference(id)]
       /\ last' = Response("initiate", m, "", "ok",
                           InitiatePaymentReference(caller, m, hasEmail, gatewayOk))
       /\ UNCHANGED <<reviews, nextReviewId, now, inflight, users>>

GatewayAnswers == {"success", "failed", "error"}

\* POST api/payments/verify/:reference
VerifyPaymentResult(caller, reference, answer) ==
  IF FindByReference(reference, 1) = 0 THEN "NotFound"
  ELSE IF payments[FindByReference(reference, 1)].user # caller /\ Role(caller) # "admin"
    THEN "Forbidden"
  ELSE IF answer = "error" THEN "UpstreamFailure"
  ELSE IF answer = "success" THEN "ok"
  ELSE "PaymentFailed"

VerifyPayment(caller, reference, answer) ==
  LET id == FindByReference(reference, 1)
      result == VerifyPaymentResult(caller, reference, answer)
  IN IF result = "ok"
       THEN /\ payments' = [payments EXCEPT ![id].status = "completed",
                                           ![id].paidAt = now]
            /\ manuscripts' = [manuscripts EXCEPT
                 ![payments[id].manuscript].paymentCompleted = TRUE,
                 ![payments[id].manuscript].paymentReference = payments[id].paymentReference]
            /\ last' = Response("verify", id, "", "ok", payments[id].paymentReference)
            /\ UNCHANGED <<reviews, nextReviewId, now, inflight, users>>
     ELSE IF result = "PaymentFailed"
       THEN /\ payments' = [payments EXCEPT ![id].status = "failed"]
            /\ last' = Response("verify", id, "", "PaymentFailed", NoRef)
            /\ UNCHANGED <<manuscripts, reviews, nextReviewId, now, inflight, users>>
     ELSE Rejected

WebhookEvents == {"charge.success", "charge.failed"}

\* the references a gateway event can name: those of the transactions the
\* gateway initialised
GatewayReferences == {payments[i].paystackReference : i \in 1..Len(payments)}

\* POST api/payments/webhook
WebhookResult(signatureOk) ==
  IF ~signatureOk THEN "InvalidSignature" ELSE "ok"

Webhook(signatureOk, event, reference) ==
  IF WebhookResult(signatureOk) # "ok" THEN Rejected
  ELSE
    \* a charge.success event is logged; its update of the store is commented out
    /\ last' = Response("webhook", 0, event, "ok", reference)
    /\ UNCHANGED <<manuscripts, reviews, nextReviewId, payments, now, inflight, users>>

\* wall-clock time (Date.now()) advancing between requests
Tick ==
  /\ now < MaxTime
  /\ now' = now + 1
  /\ UNCHANGED <<manuscripts, reviews, nextReviewId, payments, last, inflight, users>>

\* reviewerIds of an assign request: the lists of one or two ids (one id,
\* two different ids, the same id twice, ids that resolve to no User)
\* ------------------------------ public article routes (routes/payments.js)

\* the counters of metrics in the Manuscript schema.  The schema literal has
\* the key metrics twice and the later one, without shares, is the one kept.
MetricsPaths == {"views", "downloads"}

\* GET /article/:id, POST /article/:id/download, POST /article/:id/share
Counters == {"views", "downloads", "shares"}

\* article.metrics.<counter> || 0 of the loaded document
ReadCounter(m, counter) ==
  IF counter \in MetricsPaths THEN manuscripts[m].metrics[counter] ELSE 0

\* A request up to its save(): Manuscript.findOne({_id, status: 'published'})
\* loads the article and the handler holds the counter it read.
ArticleRead(m, counter) ==
  /\ Exists(m)
  /\ manuscripts[m].status = "published"
  /\ Len(inflight) < MaxInflight
  /\ ReadCounter(m, counter) < MaxCount
  /\ inflight' = Append(inflight,
       [manuscript |-> m, counter |-> counter, read |-> ReadCounter(m, counter)])
  /\ UNCHANGED <<manuscripts, reviews, nextReviewId, payments, now, last, users>>

\* article.save() of a request that read: the one modified path is set to
\* the value read plus one; a path outside the schema is not stored.
ArticleWrite(i) ==
  /\ i \in 1..Len(inflight)
  /\ LET request == inflight[i]
     IN /\ manuscripts' =
             IF request.counter \in MetricsPaths
               THEN [manuscripts EXCEPT
                      ![request.manuscript].metrics[request.counter] = request.read + 1]
               ELSE manuscripts
        /\ last' = Response(request.counter, request.manuscript, "", "ok", NoRef)
  /\ inflight' = SubSeq(inflight, 1, i - 1) \o SubSeq(inflight, i + 1, Len(inflight))
  /\ UNCHANGED <<reviews, nextReviewId, payments, now, users>>

\* ------------------------------------------- routes/plagiarism (part_002)

PlagiarismStatusEnum == {"pending", "processing", "completed", "failed"}

\* what plagiarismService.checkPlagiarism resolves to: {success: true, report}
\* or, for anything thrown inside it, {success: false, error}
CheckAnswers == {"success", "failure"}

\* POST api/plagiarism/check/:manuscriptId
PlagiarismCheckResult(caller, m) ==
  IF ~Authorize(caller, {"editor", "admin"}) THEN "Forbidden"
  ELSE IF ~Exists(m) THEN "NotFound"
  ELSE IF manuscripts[m].plagiarismCheck = "processing" THEN "InvalidState"
  ELSE "ok"

\* The handler up to its call of the checker: status processing is saved.
\* The checker takes minutes, other requests run meanwhile.
PlagiarismCheckStart(caller, m) ==
  IF PlagiarismCheckResult(caller, m) # "ok" THEN Rejected
  ELSE
    /\ manuscripts' = [manuscripts EXCEPT ![m].plagiarismCheck = "processing"]
    /\ UNCHANGED <<reviews, nextReviewId, payments, now, last, inflight, users>>

\* The handler from the checker's answer on: completed or failed is saved
\* and the request answered; recorded with the status the checker was
\* called under.
PlagiarismCheckFinish(m, answer) ==
  /\ Exists(m)
  /\ manuscripts[m].plagiarismCheck = "processing"
  /\ manuscripts' = [manuscripts EXCEPT
       ![m].plagiarismCheck = IF answer = "success" THEN "completed" ELSE "failed"]
  /\ last' = Response("plagiarism-check", m, "processing",
                      IF answer = "success" THEN "ok" ELSE "CheckFailed", NoRef)
  /\ UNCHANGED <<reviews, nextReviewId, payments, now, inflight, users>>

\* a manuscript id that is no ObjectId: Manuscript.findById rejects
MalformedId == 0

\* the ids a bulk request may carry: malformed, stored, or of no manuscript
BulkIds == {MalformedId} \cup 1..(MaxManuscripts + 1)

BulkIdLists == {<<a>> : a \in BulkIds} \cup {<<a, b>> : a \in BulkIds, b \in BulkIds}

BulkAnswers == {<<a, b>> : a \in CheckAnswers, b \in CheckAnswers}

\* the loop of POST api/plagiarism/bulk-check: each item in its own
\* try/catch, results holds one <<id, outcome>> per item; answers[1] is the
\* checker's answer to the item at the head
RECURSIVE BulkLoop(_, _, _)
BulkLoop(ids, answers, st) ==
  IF ids = <<>> THEN st
  ELSE
    LET id == Head(ids)
    IN IF id = MalformedId
         THEN BulkLoop(Tail(ids), Tail(answers),
                [st EXCEPT !.results = Append(@, <<id, "Cast to ObjectId failed">>)])
       ELSE IF id \notin 1..Len(st.docs)
         THEN BulkLoop(Tail(ids), Tail(answers),
                [st EXCEPT !.results = Append(@, <<id, "Manuscript not found">>)])
       ELSE IF st.docs[id].plagiarismCheck = "processing"
         THEN BulkLoop(Tail(ids), Tail(answers),
                [st EXCEPT !.results = Append(@, <<id, "Already processing">>)])
       \* the checker is called with the status as it was found
       ELSE IF Head(answers) = "success"
         THEN BulkLoop(Tail(ids), Tail(answers),
                [docs |-> [st.docs EXCEPT ![id].plagiarismCheck = "completed"],
                 results |-> Append(st.results, <<id, "checked">>)])
       ELSE BulkLoop(Tail(ids), Tail(answers),
                [st EXCEPT !.results = Append(@, <<id, "check failed">>)])

BulkResults(results) == <<"results", results>>

\* POST api/plagiarism/bulk-check
BulkCheckResult(caller) ==
  IF ~Authorize(caller, {"admin"}) THEN "Forbidden" ELSE "ok"

BulkCheck(caller, ids, answers) ==
  IF BulkCheckResult(caller) # "ok" THEN Rejected
  ELSE
    LET st == BulkLoop(ids, answers, [docs |-> manuscripts, results |-> <<>>])
    IN /\ manuscripts' = st.docs
       /\ last' = Response("bulk-check", 0, "", "ok", BulkResults(st.results))
       /\ UNCHANGED <<reviews, nextReviewId, payments, now, inflight, users>>

ReviewerIdLists ==
  {<<a>> : a \in ReviewerInputs} \cup
  {<<a, b>> : a \in ReviewerInputs, b \in ReviewerInputs}

\* callers and inputs of the requests
NextCreate ==
  \E caller \in Authors, title \in TextInputs, abstract \in TextInputs,
     withFiles \in BOOLEAN :
    CreateManuscript(caller, title, abstract, withFiles)

NextManuscript ==
  \/ \E caller \in Users, m \in ManuscriptIds, addFiles \in BOOLEAN :
       UpdateManuscript(caller, m, addFiles)
  \/ \E caller \in Users, m \in ManuscriptIds : SubmitManuscript(caller, m)
  \/ \E caller \in Users, m \in ManuscriptIds,
        status \in ManuscriptStatusEnum \cup {"submitted-back"} :
       UpdateStatus(caller, m, status)

NextDecision ==
  \E caller \in Users, m \in ManuscriptIds, decision \in DecisionInputs :
    MakeDecision(caller, m, decision)

DeadlineInputs == {NoDate, MaxTime + 1}

NextDated ==
  \E caller \in Users, m \in ManuscriptIds, decision \in DecisionInputs,
     revisionDeadline \in DeadlineInputs :
    MakeDecisionDated(caller, m, decision, revisionDeadline)

NextPublish ==
  \E caller \in Users, m \in ManuscriptIds : Publish(caller, m)

NextEditorial ==
  \/ \E caller \in Users, m \in ManuscriptIds, decision \in InitialDecisions :
       InitialReview(caller, m, decision)
  \/ \E caller \in Users, m \in ManuscriptIds : SubmitBack(caller, m)

ReviewRequests(dueDates, evaluations) ==
  \/ \E caller \in Users, m \in ManuscriptIds, reviewerIds \in ReviewerIdLists,
        dueDate \in dueDates :
       AssignReviewers(caller, m, reviewerIds, dueDate)
  \/ \E caller \in Users, id \in ReviewIds : AcceptReview(caller, id)
  \/ \E caller \in Users, id \in ReviewIds : DeclineReview(caller, id)
  \/ \E caller \in Users, id \in ReviewIds, evaluation \in evaluations :
       SubmitReview(caller, id, evaluation)
  \/ \E caller \in Users, id \in ReviewIds, evaluation \in evaluations :
       SubmitReviewAlt(caller, id, evaluation)

NextReview == ReviewRequests(DueDateInputs, SubmitEvaluations)

\* the review requests with the default due date and an unscored evaluation
NextReviewPlain == ReviewRequests({NoDate}, {NoEvaluation})

\* review.evaluation = evaluation; review.save(): the pre-save hook applied
\* to a stored Review whose evaluation is replaced
SaveEvaluation(id, evaluation) ==
  /\ ReviewExists(id)
  /\ reviews' = {IF r.id = id THEN ReviewPreSave([r EXCEPT !.evaluation = evaluation])
                             ELSE r : r \in reviews}
  /\ UNCHANGED <<manuscripts, nextReviewId, payments, now, last, inflight, users>>

NextSaveEvaluation ==
  \E id \in ReviewIds, evaluation \in Evaluations : SaveEvaluation(id, evaluation)

\* the notifying requests under every outcome of the notification sink
NextNotified ==
  \/ \E caller \in Users, m \in ManuscriptIds, decision \in InitialDecisions,
        mail \in MailOutcomes :
       InitialReviewNotified(caller, m, decision, mail)
  \/ \E caller \in Users, m \in ManuscriptIds, decision \in DecisionInputs,
        mail \in MailOutcomes :
       MakeDecisionNotified(caller, m, decision, mail)
  \/ \E caller \in Users, m \in ManuscriptIds, mail \in MailOutcomes :
       PublishNotified(caller, m, mail)
  \/ \E caller \in Users, m \in ManuscriptIds, mail \in MailOutcomes :
       SubmitBackNotified(caller, m, mail)
  \/ \E caller \in Users, m \in ManuscriptIds, reviewerIds \in ReviewerIdLists,
        mail \in MailOutcomes :
       AssignReviewersNotified(caller, m, reviewerIds, NoDate, mail)

\* reviewer id lists with ids that resolve, ids of no User and malformed ids
BatchIdLists ==
  {<<a>> : a \in ReviewerInputs \cup {Malformed}} \cup
  {<<a, b>> : a \in ReviewerInputs \cup {Malformed},
              b \in ReviewerInputs \cup {Malformed}}

\* the batch requests and the single plagiarism check
NextBatch ==
  \/ \E caller \in Users, m \in ManuscriptIds, reviewerIds \in BatchIdLists :
       AssignReviewers(caller, m, reviewerIds, NoDate)
  \/ \E caller \in Users, m \in ManuscriptIds : PlagiarismCheckStart(caller, m)
  \/ \E m \in ManuscriptIds, answer \in CheckAnswers : PlagiarismCheckFinish(m, answer)
  \/ \E caller \in Users, ids \in BulkIdLists, answers \in BulkAnswers :
       BulkCheck(caller, ids, answers)

\* every guarded request, by every caller, with one input that passes each
\* of its checks behind the gate
NextGated ==
  \/ \E caller \in Users, m \in ManuscriptIds : SubmitManuscript(caller, m)
  \/ \E caller \in Users, m \in ManuscriptIds :
       InitialReview(caller, m, "send-for-review")
  \/ \E caller \in Users, m \in ManuscriptIds : MakeDecision(caller, m, "accept")
  \/ \E caller \in Users, m \in ManuscriptIds : Publish(caller, m)
  \/ \E caller \in Users, m \in ManuscriptIds : SubmitBack(caller, m)
  \/ \E caller \in Users, m \in ManuscriptIds :
       AssignReviewers(caller, m, <<"rev1">>, NoDate)
  \/ \E caller \in Users, id \in ReviewIds : AcceptReview(caller, id)
  \/ \E caller \in Users, id \in ReviewIds : DeclineReview(caller, id)
  \/ \E caller \in Users, id \in ReviewIds : SubmitReview(caller, id, NoEvaluation)
  \/ \E caller \in Users, id \in ReviewIds : SubmitReviewAlt(caller, id, NoEvaluation)
  \/ \E caller \in Users, m \in ManuscriptIds : InitiatePayment(caller, m, TRUE, TRUE)
  \/ \E caller \in Users, reference \in References, answer \in {"success", "failed"} :
       VerifyPayment(caller, reference, answer)

\* concurrent view, download and share requests
NextArticle ==
  \/ \E m \in ManuscriptIds, counter \in Counters : ArticleRead(m, counter)
  \/ \E i \in 1..MaxInflight : ArticleWrite(i)

\* concurrent assign requests, one reviewer id each
NextAssignSteps ==
  \/ \E caller \in Users, m \in ManuscriptIds, reviewerId \in ReviewerInputs :
       AssignCheck(caller, m, reviewerId, NoDate)
  \/ \E i \in 1..MaxInflight : AssignWrite(i)

NextDecideSteps ==
  \/ \E caller \in Users, m \in ManuscriptIds, decision \in EditorDecisionEnum :
       DecideCheck(caller, m, decision)
  \/ \E i \in 1..MaxInflight : DecideWrite(i)

NextPayment ==
  \/ \E caller \in Users, m \in ManuscriptIds, hasEmail \in BOOLEAN, gatewayOk \in BOOLEAN :
       InitiatePayment(caller, m, hasEmail, gatewayOk)
  \/ \E caller \in Users, reference \in References, answer \in GatewayAnswers :
       VerifyPayment(caller, reference, answer)
  \/ \E signatureOk \in BOOLEAN, event \in WebhookEvents, reference \in GatewayReferences :
       Webhook(signatureOk, event, reference)
  \/ Tick

Next ==
  \/ NextCreate
  \/ NextManuscript
  \/ NextDecision
  \/ NextPublish
  \/ NextEditorial
  \/ NextReview
  \/ NextAssignSteps
  \/ NextPayment

\* every handler
Spec == Init /\ [][Next]_vars

\* the manuscript status and every handler that reads or writes it or the
\* Reviews that gate make-decision; the payment handlers read the status
\* and write only Payments and the payment mirror
SpecLifecycle ==
  Init /\ [][NextCreate \/ NextManuscript \/ NextDecision \/ NextPublish
             \/ NextEditorial \/ NextReviewPlain]_vars

\* the Review entities and their mirror, with every handler that reads or
\* writes them: creation of the manuscript, the review handlers and
\* make-decision (the other handlers touch neither Reviews nor
\* reviewAssignments, and no review handler reads what they write)
SpecReview == Init /\ [][NextCreate \/ NextReview \/ NextDecision]_vars

\* the review handlers with the assign requests running concurrently
SpecAssignRace == Init /\ [][NextCreate \/ NextAssignSteps \/ NextReviewPlain]_vars

\* the pre-save hook of the Review schema as a function of the document:
\* a manuscript with one assigned Review, saved with every evaluation
InitReviewSave ==
  /\ manuscripts = <<[status |-> "under-review",
                      title |-> "T",
                      abstract |-> "T",
                      submissionDate |-> NoDate,
                      submittedBy |-> "author",
                      hasFiles |-> TRUE,
                      paymentCompleted |-> FALSE,
                      paymentReference |-> NoRef,
                      reviewAssignments |->
                        <<[reviewer |-> "rev1", status |-> "pending",
                           dueDate |-> ThirtyDays]>>,
                      reviews |-> <<>>,
                      plagiarismCheck |-> "pending",
                      metrics |-> [views |-> 0, downloads |-> 0],
                      editorDecision |-> Undefined,
                      revisionDeadline |-> NoDate]>>
  /\ reviews = {NewReview(1, 1, "rev1", ThirtyDays)}
  /\ nextReviewId = 2
  /\ payments = <<>>
  /\ now = 0
  /\ last = Response("assign", 1, "draft", "ok", Assigned(1))
  /\ inflight = <<>>
  /\ users = [u \in Users |-> IF u = "rev1" THEN {1} ELSE {}]

SpecReviewSave == InitReviewSave /\ [][NextSaveEvaluation]_vars

\* the Payment entities and the payment mirror, with every handler that
\* reads or writes them, and the handlers that move the status into and out
\* of accepted and published, the only statuses a payment handler tests
SpecPayment == Init /\ [][NextCreate \/ NextDecision \/ NextPublish \/ NextPayment]_vars

\* a manuscript decided and published, and the requests that count its use
SpecMetrics == Init /\ [][NextCreate \/ NextDecision \/ NextPublish \/ NextArticle]_vars

\* batch assignment and the plagiarism checks of a manuscript
SpecBatch == Init /\ [][NextCreate \/ NextBatch]_vars

\* the role and ownership gates: every guarded route, tried by every user
SpecGates == Init /\ [][NextCreate \/ NextGated]_vars

\* the editorial workflow with an unreliable notification sink
SpecNotify == Init /\ [][NextCreate \/ NextManuscript \/ NextNotified]_vars

\* the decisions with their stored record: any status, any decision, with
\* and without a supplied deadline, at different times
SpecDecision == Init /\ [][NextCreate \/ NextManuscript \/ NextDated \/ Tick]_vars

\* make-decision requests running concurrently with assign requests
SpecDecisionRace == Init /\ [][NextCreate \/ NextAssignSteps \/ NextDecideSteps]_vars

\* ============================================================ properties

Created == 1..Len(manuscripts)

PaymentIds == 1..Len(payments)

CompletedPayments(m) ==
  {i \in PaymentIds : payments[i].manuscript = m /\ payments[i].status = "completed"}

\* the transition table of the editorial decision engine
PreReview == {"draft", "submitted", "awaiting-reviewer-assignment"}

TableEdge(from, to) ==
  \/ from = "draft" /\ to = "submitted"
  \/ from = "submitted" /\ to \in {"awaiting-reviewer-assignment", "rejected"}
  \/ from \in PreReview /\ to = "under-review"
  \/ from = "under-review" /\ to \in {"accepted", "revision-requested", "rejected"}
  \/ from = "accepted" /\ to = "published"
  \/ to = "submitted-back"

\* C1: every change of a manuscript's status follows an edge of the
\* transition table (no handler moves the status along another edge).
C1_StatusFollowsTable ==
  [][\A m \in Created :
       manuscripts'[m].status # manuscripts[m].status =>
         TableEdge(manuscripts[m].status, manuscripts'[m].status)]_vars

AllReviewsCompleted(m) == \A r \in ReviewsOf(m) : r.status = "completed"

\* C2: for a manuscript with at least one review assignment, make-decision
\* by an editor succeeds exactly when every Review of the manuscript is
\* completed, and is answered PendingReviews otherwise.
C2_DecisionIffAllCompleted ==
  \A m \in Created, decision \in EditorDecisionEnum :
    Len(manuscripts[m].reviewAssignments) >= 1 =>
      /\ MakeDecisionResult("editor", m, decision) = "ok" <=> AllReviewsCompleted(m)
      /\ ~AllReviewsCompleted(m) =>
           MakeDecisionResult("editor", m, decision) = "PendingReviews"

\* C3: a published manuscript has its publication fee paid.
C3_PublishedIsPaid ==
  \A m \in Created :
    manuscripts[m].status = "published" => manuscripts[m].paymentCompleted

MayPay(caller, m) == manuscripts[m].submittedBy = caller \/ Role(caller) = "admin"

CompletedReferences(m) == {payments[i].paymentReference : i \in CompletedPayments(m)}

PaymentEdge(from, to) ==
  \/ from = "pending" /\ to = "processing"
  \/ from = "processing" /\ to \in {"completed", "failed"}

AssignmentsFor(m, reviewer) ==
  {k \in 1..Len(manuscripts[m].reviewAssignments) :
     manuscripts[m].reviewAssignments[k].reviewer = reviewer}

ReviewsFor(m, reviewer) == {r \in ReviewsOf(m) : r.reviewer = reviewer}

C11_OneReviewPerPair ==
  \A r1 \in reviews, r2 \in reviews :
    r1.manuscript = r2.manuscript /\ r1.reviewer = r2.reviewer => r1.id = r2.id

EntriesOf(assignments, reviewer) ==
  SelectSeq(assignments, LAMBDA a : a.reviewer = reviewer)

\* C12: an assign request that names a reviewer who already has a Review
\* for the manuscript leaves that pair with its one Review, unchanged in
\* status, dueDate and evaluation, and with its one reviewAssignments entry.
C12_ReassignKeepsReview ==
  \A m \in Created, reviewerIds \in ReviewerIdLists, dueDate \in DueDateInputs :
    \A k \in 1..Len(reviewerIds) :
      ReviewsFor(m, reviewerIds[k]) # {} =>
        LET st == AssignOutcome(m, reviewerIds, dueDate)
        IN /\ {r \in st.reviews : r.manuscript = m /\ r.reviewer = reviewerIds[k]}
                = ReviewsFor(m, reviewerIds[k])
           /\ Cardinality(ReviewsFor(m, reviewerIds[k])) = 1
           /\ EntriesOf(st.assignments, reviewerIds[k])
                = EntriesOf(manuscripts[m].reviewAssignments, reviewerIds[k])
           /\ Len(EntriesOf(st.assignments, reviewerIds[k])) = 1

\* an assign request was answered for one reviewer, the one whose Review is
\* already completed, with a due date other than the Review's
C12_CompletedReassigned ==
  /\ last.op = "assign"
  /\ last.ref = Assigned(1)
  /\ last.target \in Created
  /\ \E r \in ReviewsOf(last.target) :
       /\ ReviewsOf(last.target) = {r}
       /\ r.status = "completed"
       /\ r.overallScore # NoOverallScore

ReviewEdge(from, to) ==
  \/ from = "pending" /\ to = "in-progress"
  \/ from = "in-progress" /\ to = "completed"

\* C13: a Review's status changes only pending -> in-progress -> completed,
\* and a Review is deleted only while pending (a completed Review keeps its
\* status and stays).
C13_ReviewStatusEdges ==
  [][\A r \in reviews :
       IF \E t \in reviews' : t.id = r.id
         THEN LET t == CHOOSE t \in reviews' : t.id = r.id
              IN t.status # r.status => ReviewEdge(r.status, t.status)
         ELSE r.status = "pending"]_vars

Scored(r) == {c \in Criteria : r.evaluation[c] # NoScore}

\* C14: every stored Review with scored criteria has overallScore equal to
\* the mean of their scores (overallScore times their number is their sum),
\* and a Review without scored criteria has no overallScore.
C14_OverallScoreIsMean ==
  \A r \in reviews :
    IF Scored(r) = {}
      THEN r.overallScore = NoOverallScore
      ELSE /\ r.overallScore.den # 0
           /\ r.overallScore.num * Cardinality(Scored(r))
                = SumScores(r.evaluation, Scored(r)) * r.overallScore.den

Submittable(caller, m) ==
  /\ manuscripts[m].submittedBy = caller
  /\ manuscripts[m].status = "draft"
  /\ manuscripts[m].title # ""
  /\ manuscripts[m].abstract # ""
  /\ manuscripts[m].hasFiles

\* C16: submit of an existing manuscript succeeds exactly when the caller is
\* the owner, the status is draft and title, abstract and a file are there;
\* it then sets status submitted and submissionDate to the time of the call;
\* otherwise it is answered Forbidden, InvalidState or ValidationError and
\* leaves status and submissionDate as they were.
C16_SubmitContract ==
  [][\A m \in Created, caller \in Users :
       /\ SubmitManuscriptResult(caller, m) = "ok" <=> Submittable(caller, m)
       /\ ~Submittable(caller, m) =>
            SubmitManuscriptResult(caller, m)
              \in {"Forbidden", "InvalidState", "ValidationError"}
       /\ SubmitManuscript(caller, m) =>
            IF Submittable(caller, m)
              THEN /\ manuscripts'[m].status = "submitted"
                   /\ manuscripts'[m].submissionDate = now
                   /\ manuscripts'[m].submissionDate # NoDate
              ELSE /\ manuscripts'[m].status = manuscripts[m].status
                   /\ manuscripts'[m].submissionDate = manuscripts[m].submissionDate]_vars

\* the owner submitted a draft that has its file
C16_Submitted ==
  /\ last.op = "submit"
  /\ last.target \in Created
  /\ manuscripts[last.target].status = "submitted"
  /\ manuscripts[last.target].hasFiles
  /\ manuscripts[last.target].submissionDate # NoDate

\* the ids of a request are different ids of users without a Review for m
FreshReviewers(m, reviewerIds) ==
  /\ \A k \in 1..Len(reviewerIds) :
       reviewerIds[k] \in Users /\ ReviewsFor(m, reviewerIds[k]) = {}
  /\ \A k, l \in 1..Len(reviewerIds) : reviewerIds[k] = reviewerIds[l] => k = l

\* C17: for a manuscript awaiting reviewer assignment, an assign request by
\* an editor or admin with n >= 1 different ids of users without a Review
\* creates exactly n Reviews, all pending, appends exactly n pending
\* reviewAssignments entries and sets the status under-review; a request
\* none of whose ids resolves to a user creates no Review and leaves the
\* status and the reviewAssignments as they were.
C17_AssignAfterInitialReview ==
  [][\A m \in Created :
       manuscripts[m].status = "awaiting-reviewer-assignment" =>
         \A caller \in {"editor", "admin"}, reviewerIds \in ReviewerIdLists :
           AssignReviewers(caller, m, reviewerIds, NoDate) =>
             /\ FreshReviewers(m, reviewerIds) =>
                  /\ Cardinality(reviews' \ reviews) = Len(reviewerIds)
                  /\ reviews \subseteq reviews'
                  /\ \A r \in reviews' \ reviews :
                       r.manuscript = m /\ r.status = "pending"
                  /\ \A k \in 1..Len(reviewerIds) :
                       \E r \in reviews' \ reviews : r.reviewer = reviewerIds[k]
                  /\ Len(manuscripts'[m].reviewAssignments)
                       = Len(manuscripts[m].reviewAssignments) + Len(reviewerIds)
                  /\ \A k \in 1..Len(reviewerIds) :
                       manuscripts'[m].reviewAssignments
                         [Len(manuscripts[m].reviewAssignments) + k].status = "pending"
                  /\ SubSeq(manuscripts'[m].reviewAssignments, 1,
                            Len(manuscripts[m].reviewAssignments))
                       = manuscripts[m].reviewAssignments
                  /\ manuscripts'[m].status = "under-review"
             /\ (\A k \in 1..Len(reviewerIds) : reviewerIds[k] \notin Users) =>
                  /\ reviews' = reviews
                  /\ manuscripts'[m].status = manuscripts[m].status
                  /\ manuscripts'[m].reviewAssignments
                       = manuscripts[m].reviewAssignments]_vars

\* two reviewers were assigned to a manuscript that awaited assignment
C17_TwoAssigned ==
  /\ last.op = "assign"
  /\ last.arg = "awaiting-reviewer-assignment"
  /\ last.ref = Assigned(2)
  /\ last.target \in Created
  /\ manuscripts[last.target].status = "under-review"
  /\ Cardinality({r \in ReviewsOf(last.target) : r.status = "pending"}) = 2
  /\ Len(manuscripts[last.target].reviewAssignments) = 2

\* C18: make-decision by an editor is refused for a manuscript without any
\* review assignment.
C18_NoAssignmentNoDecision ==
  \A m \in Created, decision \in EditorDecisionEnum :
    Len(manuscripts[m].reviewAssignments) = 0 =>
      MakeDecisionResult("editor", m, decision) # "ok"

\* C19: an under-review manuscript is in the pending-decisions listing
\* exactly when make-decision by an editor would be accepted for it.
C19_ListingMatchesGate ==
  \A m \in Created, decision \in EditorDecisionEnum :
    manuscripts[m].status = "under-review" =>
      (m \in readyForDecision <=> MakeDecisionResult("editor", m, decision) = "ok")

\* C20: every Payment has natural-number amount, platformFee and
\* vendorReceives, with platformFee the integer nearest to a tenth of the
\* amount (halves upward) and amount = platformFee + vendorReceives.
C20_FeeSplit ==
  \A i \in PaymentIds :
    /\ payments[i].amount \in Nat
    /\ payments[i].platformFee \in Nat
    /\ payments[i].vendorReceives \in Nat
    /\ 10 * payments[i].platformFee - 5 <= payments[i].amount
    /\ payments[i].amount < 10 * payments[i].platformFee + 5
    /\ payments[i].amount = payments[i].platformFee + payments[i].vendorReceives

\* initiate created a Payment
C20_PaymentCreated ==
  /\ last.op = "initiate"
  /\ last.result = "ok"
  /\ Len(payments) >= 1
  /\ payments[Len(payments)].amount = publicationFee


\* C21: when the gateway call of an initiate request fails, the caller gets
\* an error, no Payment of the manuscript with status processing or completed
\* is stored by the request, and the manuscript's paymentReference and
\* paymentCompleted stay as they were.  The handler consumes one gateway
\* answer per request: there is no second call.
C21_GatewayFailureWritesNothing ==
  [][\A caller \in Users, m \in ManuscriptIds :
       (/\ InitiatePaymentResult(caller, m, TRUE, FALSE) = "UpstreamFailure"
        /\ last' = Response("initiate", m, "", "UpstreamFailure", NoRef)
        /\ last' # last)
       => /\ {i \in DOMAIN payments' :
               /\ payments'[i].manuscript = m
               /\ payments'[i].status \in {"processing", "completed"}}
             = {i \in DOMAIN payments :
               /\ payments[i].manuscript = m
               /\ payments[i].status \in {"processing", "completed"}}
          /\ payments' = payments
          /\ manuscripts'[m].paymentReference = manuscripts[m].paymentReference
          /\ manuscripts'[m].paymentCompleted = manuscripts[m].paymentCompleted]_vars

\* an initiate request was answered with the gateway's failure
C21_GatewayFailed ==
  /\ last.op = "initiate"
  /\ last.result = "UpstreamFailure"
  /\ \A i \in DOMAIN payments : payments[i].manuscript # last.target

StatusOperations ==
  {"submit", "initial-review", "assign", "make-decision", "publish", "submit-back"}

\* C23: every operation that changes a manuscript's status (submit,
\* initial-review, assign-reviewers, make-decision, publish, submit-back)
\* appends at least one entry to editorNotes in the same operation.
C23_StatusChangeAppendsNote ==
  [][\A m \in Created :
       (/\ manuscripts'[m].status # manuscripts[m].status
        /\ last'.op \in StatusOperations)
       => editorNotesPushed(last'.op, last'.arg) >= 1]_vars

C25_BatchSurvivesItemFailure ==
  [][(manuscripts' # manuscripts \/ reviews' # reviews \/ last' # last) =>
     \A caller \in Users :
       /\ last'.op = "assign" =>
            \A m \in ManuscriptIds, ids \in BatchIdLists :
              AssignReviewers(caller, m, ids, NoDate) =>
                /\ \A i \in 1..Len(ids) :
                     ids[i] \in Users => HasReview(reviews', m, ids[i])
                /\ (\E i \in 1..Len(ids) : HasReview(reviews', m, ids[i]))
                     => manuscripts'[m].status = "under-review"
       /\ last'.op = "bulk-check" =>
            \A ids \in BulkIdLists, answers \in BulkAnswers :
              BulkCheck(caller, ids, answers) =>
                \A i \in 1..Len(ids) :
                  (/\ ids[i] \in Created
                   /\ manuscripts[ids[i]].plagiarismCheck # "processing"
                   /\ answers[i] = "success")
                  => manuscripts'[ids[i]].plagiarismCheck = "completed"
    ]_vars

\* C30: whenever the plagiarism checker is called for a manuscript, by the
\* single or the bulk check, its plagiarismCheck.status was processing at
\* the call; when the request finishes the status is completed or failed;
\* and a check request for a manuscript that is processing is rejected.
C30_CheckerRunsUnderProcessing ==
  [][(manuscripts' # manuscripts \/ last' # last) =>
     /\ last'.op = "plagiarism-check" =>
          /\ manuscripts[last'.target].plagiarismCheck = "processing"
          /\ manuscripts'[last'.target].plagiarismCheck \in {"completed", "failed"}
     /\ last'.op = "bulk-check" =>
          \A i \in 1..Len(last'.ref[2]) :
            LET id == last'.ref[2][i][1]
                outcome == last'.ref[2][i][2]
            IN \* the items the checker was called for
               outcome \in {"checked", "check failed"} =>
                 /\ manuscripts[id].plagiarismCheck = "processing"
                 /\ manuscripts'[id].plagiarismCheck \in {"completed", "failed"}
     /\ \A caller \in Users, m \in Created :
          manuscripts[m].plagiarismCheck = "processing" =>
            PlagiarismCheckResult(caller, m) \in {"Forbidden", "InvalidState"}
    ]_vars

\* C26: in every reachable state the status of every manuscript is one of
\* the schema's enum values or the transitional submitted-back: never unset
\* and never another value such as reviewed.
C26_StatusInEnum ==
  \A m \in Created :
    manuscripts[m].status \in ManuscriptStatusEnum \cup {"submitted-back"}

\* callers that fail the role gate of the editorial routes and of assign
NotEditorial == {u \in Users : ~Authorize(u, {"editor", "admin"})}

\* callers that are not the reviewer of Review id
NotReviewerOf(id) == {u \in Users : ReviewExists(id) /\ ReviewById(id).reviewer # u}

\* callers that neither own manuscript m nor are an admin
NotPayerOf(m) ==
  {u \in Users : Exists(m) /\ manuscripts[m].submittedBy # u /\ Role(u) # "admin"}

C28_ReviewsAreTheCompleted ==
  \A m \in Created :
    /\ \A i \in 1..Len(manuscripts[m].reviews), j \in 1..Len(manuscripts[m].reviews) :
         manuscripts[m].reviews[i] = manuscripts[m].reviews[j] => i = j
    /\ {manuscripts[m].reviews[i] : i \in 1..Len(manuscripts[m].reviews)}
         = {r.id : r \in {x \in ReviewsOf(m) : x.status = "completed"}}

\* C29: each reviewAssignments entry's status agrees with the status of the
\* Review of its manuscript and reviewer: pending with pending, accepted
\* with in-progress, completed with completed.
C29_AssignmentStatusAgrees ==
  \A m \in Created :
    \A k \in 1..Len(manuscripts[m].reviewAssignments) :
      \A r \in ReviewsFor(m, manuscripts[m].reviewAssignments[k].reviewer) :
        \/ manuscripts[m].reviewAssignments[k].status = "pending"
             /\ r.status = "pending"
        \/ manuscripts[m].reviewAssignments[k].status = "accepted"
             /\ r.status = "in-progress"
        \/ manuscripts[m].reviewAssignments[k].status = "completed"
             /\ r.status = "completed"

\* C31: the counters views, downloads and shares of a manuscript never
\* decrease, under any interleaving of concurrent view, download and share
\* requests.
C31_CountersNeverDecrease ==
  [][\A m \in Created, counter \in MetricsPaths :
       manuscripts'[m].metrics[counter] >= manuscripts[m].metrics[counter]]_vars

\* C32: a manuscript's status becomes accepted only by make-decision(accept)
\* applied while its status is under-review, and make-decision by an editor
\* or admin on a manuscript in any other status is answered InvalidState.
C32_AcceptedOnlyFromUnderReview ==
  [][\A m \in Created :
       /\ (manuscripts'[m].status = "accepted" /\ manuscripts[m].status # "accepted")
            => /\ last'.op = "make-decision"
               /\ last'.arg = "accept"
               /\ manuscripts[m].status = "under-review"
       /\ manuscripts[m].status # "under-review"
            => \A decision \in EditorDecisionEnum :
                 MakeDecisionResult("editor", m, decision) = "InvalidState"]_vars

\* C33: submit-back by an editor or admin on an existing manuscript, in any
\* status, succeeds (and sets the status to submitted-back).
C33_SubmitBackSucceeds ==
  \A m \in Created, caller \in {"editor", "admin"} :
    SubmitBackResult(caller, m) = "ok"

C36_GatewayGetsStoredReference ==
  [][((last' # last \/ payments' # payments)
        /\ last'.op = "initiate" /\ last'.result = "ok") =>
       LET id == Len(payments')
           m == last'.target
       IN /\ Len(payments') = Len(payments) + 1
          /\ payments'[id].manuscript = m
          /\ payments'[id].status = "processing"
          /\ payments'[id].paystackReference = PaystackReference(id)
          /\ payments'[id].paymentReference # NoRef
          /\ manuscripts'[m].paymentReference = payments'[id].paymentReference
          /\ InitializeReference(payments'[id].user, m) = payments'[id].paymentReference]_vars

\* C35: after a successful make-decision, status is accepted for accept,
\* revision-requested for minor-revisions and major-revisions, and rejected
\* for reject, and editorDecision holds only this latest decision;
\* revisionDeadline is set by minor-revisions and major-revisions and is left
\* unchanged by accept and reject; a decision value outside these four is
\* rejected without changing the manuscript
C35_DecisionRecorded ==
  [][/\ ((manuscripts' # manuscripts \/ last' # last) /\ last'.op = "make-decision") =>
          LET m == last'.target
              decision == last'.arg
          IN /\ decision \in {"accept", "minor-revisions", "major-revisions", "reject"}
             /\ decision = "accept" => manuscripts'[m].status = "accepted"
             /\ decision \in {"minor-revisions", "major-revisions"}
                  => /\ manuscripts'[m].status = "revision-requested"
                     /\ manuscripts'[m].revisionDeadline
                          \in {now + SixtyDays} \cup (DeadlineInputs \ {NoDate})
             /\ decision = "reject" => manuscripts'[m].status = "rejected"
             /\ decision \in {"accept", "reject"}
                  => manuscripts'[m].revisionDeadline = manuscripts[m].revisionDeadline
             /\ manuscripts'[m].editorDecision = decision
     /\ \A m \in Created, caller \in {"editor", "admin"} :
          MakeDecisionResult(caller, m, "other") # "ok"]_vars

\* a manuscript accepted after a request for revisions: the latest decision
\* is recorded and the earlier deadline is still there
C35_AcceptedAfterRevisions ==
  /\ last.op = "make-decision"
  /\ last.arg = "accept"
  /\ manuscripts[last.target].editorDecision = "accept"
  /\ manuscripts[last.target].revisionDeadline # NoDate

Decided == {"accepted", "rejected", "revision-requested"}

\* C37: under any interleaving of a make-decision request with a concurrent
\* assign-reviewers request on the same manuscript, the manuscript never ends
\* with status accepted, rejected or revision-requested while a pending
\* Review exists for it, and a decision that has been recorded is never
\* overwritten back to under-review by the assign request's status update
C37_DecisionAndAssignDoNotCross ==
  [][\A m \in Created :
       /\ (inflight' = <<>> /\ manuscripts'[m].status \in Decided)
            => \A r \in reviews' : r.manuscript = m => r.status # "pending"
       /\ (manuscripts[m].status \in Decided /\ manuscripts[m].editorDecision # Undefined
            /\ last'.op = "assign")
            => manuscripts'[m].status # "under-review"]_vars

ErrorResults ==
  {"NotFound", "Forbidden", "InvalidState", "PendingReviews", "ValidationError",
   "Conflict", "UpstreamFailure", "ServerError"}

\* C38: every request that ends with an error response leaves all
\* Manuscript, Review and Payment state exactly as it was before the request;
\* in particular a review submission that returns an error has not marked the
\* Review completed, and a verify that returns a gateway error has not
\* changed the Payment
C38_ErrorResponsesWriteNothing ==
  [][(vars' # vars /\ last' # last /\ last'.result \in ErrorResults) =>
       /\ manuscripts' = manuscripts
       /\ reviews' = reviews
       /\ payments' = payments]_vars

====
